---- MODULE Spec2Model ----
(***************************************************************************)
(* A model of src/main.py: the AWS Backup analyzer.  One run of main() is   *)
(* a state machine: the collectors page through the account's jobs and      *)
(* plans, generate_backup_report assembles the report document, main writes *)
(* the JSON document and create_excel_report projects the report into the   *)
(* workbook's tables.                                                       *)
(*                                                                         *)
(* Python strings that the code takes apart (ARNs, status messages,         *)
(* formatted dates, column labels) are sequences of one-character strings;  *)
(* strings that are only passed through are TLA+ strings.  A Python dict is *)
(* a function whose DOMAIN is its key set; numbers that the code divides    *)
(* are exact fractions <<numerator, denominator>> in lowest terms.          *)
(***************************************************************************)
EXTENDS Integers, Sequences, FiniteSets, TLC

VARIABLES
    pc,               \* position of main()
    available_regions, \* prompt_region_selection: the regions offered
    region,           \* the region chosen, <<>> until it is
    awsJobs,          \* the account's backup jobs, as the service holds them
    stateIdx,         \* get_backup_jobs: index of the state filter being paged
    pageIdx,          \* get_backup_jobs: pages already read under that filter
    jobs,             \* get_backup_jobs: the accumulator; then the fetched jobs
    planIdx,          \* get_backup_plans: plans already appended
    selIdx,           \* get_backup_plans: selections of the current plan read
    selections,       \* get_backup_plans: the current plan's accumulator
    plans,            \* get_backup_plans: the accumulator; then the fetched plans
    unique_resources, \* generate_backup_report: get_unique_resources(jobs)
    job_status,       \* generate_backup_report: get_job_status_summary(jobs)
    report,           \* the report document, Nothing until it is assembled
    jsonFile,         \* the JSON file on disk: Nothing, Truncated or the document
    workbook,         \* the workbook's tables, Nothing until they are produced
    console,          \* the lines printed so far
    outcome,          \* "running", "success", "failed" or "propagated"
    invocations       \* calls of create_excel_report made so far

vars == <<pc, available_regions, region, awsJobs, stateIdx, pageIdx, jobs, planIdx, selIdx, selections,
          plans, unique_resources, job_status, report, jsonFile, workbook,
          console, outcome, invocations>>

(***************************************************************************)
(* Bounds of the model.                                                     *)
(***************************************************************************)
MaxJobs == 3          \* longest job list handed to the derivations
MaxAccountJobs == 2   \* most jobs the account holds in a run of main()
MaxInvocations == 3   \* most calls of create_excel_report on one report
MaxRejected == 1      \* most answers the region prompt rejects in a run

(***************************************************************************)
(* Characters and strings.                                                  *)
(***************************************************************************)
Digits == <<"0", "1", "2", "3", "4", "5", "6", "7", "8", "9">>

UpperCase == <<"A", "B", "C", "D", "E", "F", "G", "H", "I", "J", "K", "L", "M",
               "N", "O", "P", "Q", "R", "S", "T", "U", "V", "W", "X", "Y", "Z">>

LowerCase == <<"a", "b", "c", "d", "e", "f", "g", "h", "i", "j", "k", "l", "m",
               "n", "o", "p", "q", "r", "s", "t", "u", "v", "w", "x", "y", "z">>

\* ord(c)
CharOrd(c) ==
    LET at(s) == CHOOSE i \in 1..Len(s) : s[i] = c
    IN  CASE c \in {Digits[i] : i \in 1..10} -> 47 + at(Digits)
          [] c \in {UpperCase[i] : i \in 1..26} -> 64 + at(UpperCase)
          [] c \in {LowerCase[i] : i \in 1..26} -> 96 + at(LowerCase)
          [] c = " " -> 32
          [] c = "-" -> 45
          [] c = "/" -> 47
          [] c = ":" -> 58

\* str.lower(), one character.
LowerChar(c) ==
    IF \E i \in 1..Len(UpperCase) : UpperCase[i] = c
    THEN LowerCase[CHOOSE i \in 1..Len(UpperCase) : UpperCase[i] = c]
    ELSE c

\* str.lower()
Lower(s) == [i \in 1..Len(s) |-> LowerChar(s[i])]

\* str.find(sub): the lowest 0-based index at which sub occurs, or -1.
Find(s, sub) ==
    LET hits == {i \in 0..(Len(s) - Len(sub)) : SubSeq(s, i + 1, i + Len(sub)) = sub}
    IN  IF hits = {} THEN -1 ELSE CHOOSE i \in hits : \A j \in hits : i <= j

\* str.split(sep) for a one-character separator: the list of parts.
RECURSIVE Split(_, _)
Split(s, sep) ==
    LET at == {i \in 1..Len(s) : s[i] = sep}
    IN  IF at = {} THEN <<s>>
        ELSE LET i == CHOOSE k \in at : \A j \in at : k <= j
             IN  <<SubSeq(s, 1, i - 1)>> \o Split(SubSeq(s, i + 1, Len(s)), sep)

\* Python's string order: lexicographic by code point.
RECURSIVE StrLess(_, _)
StrLess(a, b) ==
    IF b = <<>> THEN FALSE
    ELSE IF a = <<>> THEN TRUE
    ELSE IF a[1] # b[1] THEN CharOrd(a[1]) < CharOrd(b[1])
    ELSE StrLess(Tail(a), Tail(b))

StrLeq(a, b) == a = b \/ StrLess(a, b)

\* min() and max() of a non-empty collection of strings.
StrMin(S) == CHOOSE a \in S : \A b \in S : StrLeq(a, b)
StrMax(S) == CHOOSE a \in S : \A b \in S : StrLeq(b, a)

\* sorted() of a set of strings.
RECURSIVE SortedStrs(_)
SortedStrs(S) ==
    IF S = {} THEN <<>> ELSE LET m == StrMin(S) IN <<m>> \o SortedStrs(S \ {m})

\* dict.get(key, default)
Get(d, key, default) == IF key \in DOMAIN d THEN d[key] ELSE default

Range(s) == {s[i] : i \in DOMAIN s}

NA == "N/A"
NAStr == <<"N", "/", "A">>

(***************************************************************************)
(* Numbers.  A float the code computes is the exact fraction <<n, d>> in    *)
(* lowest terms (d > 0); NaN is the missing cell of a reindexed frame.      *)
(***************************************************************************)
RECURSIVE GCD(_, _)
GCD(a, b) == IF b = 0 THEN a ELSE GCD(b, a % b)

Frac(n, d) == LET g == GCD(IF n < 0 THEN -n ELSE n, d) IN <<n \div g, d \div g>>

Zero == Frac(0, 1)
NaN == <<0, 0>>

FracAdd(a, b) == Frac(a[1] * b[2] + b[1] * a[2], a[2] * b[2])
FracDivInt(a, k) == Frac(a[1], a[2] * k)

RECURSIVE FracSum(_)
FracSum(s) == IF s = <<>> THEN Zero ELSE FracAdd(s[1], FracSum(Tail(s)))

\* The quotient n/d (n, d > 0) scaled by a power of two into [1, 2).
RECURSIVE Normalize(_, _)
Normalize(n, d) ==
    IF n >= 2 * d THEN Normalize(n, 2 * d)
    ELSE IF n < d THEN Normalize(2 * n, d)
    ELSE <<n, d>>

\* Long division in base 2: the remainder and the last bit after `bits` more
\* bits of the quotient.
RECURSIVE DivideBits(_, _, _, _)
DivideBits(r, d, last, bits) ==
    IF bits = 0 THEN <<r, last>>
    ELSE IF 2 * r >= d THEN DivideBits(2 * r - d, d, 1, bits - 1)
    ELSE DivideBits(2 * r, d, 0, bits - 1)

\* A float division n / d: the sign of (the double the division gives) minus
\* (the exact quotient).  The double keeps 53 significant bits, rounded to
\* nearest, a tie going to the even significand.
DoubleError(n, d) ==
    LET nd == Normalize(n, d)
        rl == DivideBits(nd[1] - nd[2], nd[2], 1, 52)
        r == rl[1]
    IN  IF r = 0 THEN 0
        ELSE IF 2 * r > nd[2] THEN 1
        ELSE IF 2 * r < nd[2] THEN -1
        ELSE IF rl[2] = 1 THEN 1 ELSE -1

\* round(x, 2) for the double x >= 0 that the division x[1] / x[2] gives: the
\* nearest multiple of 1/100 to the exact value of the double (as CPython
\* rounds).  Where the exact quotient lies halfway between two multiples the
\* double decides: it goes to the even one when the double is the quotient,
\* and to the side of the double when the division rounded.
Round2(x) ==
    LET scaled == x[1] * 100
        q == scaled \div x[2]
        r == scaled % x[2]
        err == IF 2 * r = x[2] THEN DoubleError(x[1], x[2]) ELSE 0
        up == \/ 2 * r > x[2]
              \/ 2 * r = x[2] /\ err > 0
              \/ 2 * r = x[2] /\ err = 0 /\ q % 2 = 1
    IN  Frac(IF up THEN q + 1 ELSE q, 100)

(***************************************************************************)
(* Dates.  A datetime is [year, month, day, hour, minute].                  *)
(***************************************************************************)
Pad2(n) == <<Digits[((n \div 10) % 10) + 1], Digits[(n % 10) + 1]>>

\* str(n) for n >= 0
RECURSIVE Decimal(_)
Decimal(n) ==
    IF n < 10 THEN <<Digits[n + 1]>> ELSE Decimal(n \div 10) \o <<Digits[(n % 10) + 1]>>

\* datetime.strftime('%Y-%m-%d %H:%M'): the C library's %Y writes the year
\* without padding, so a year below 1000 has fewer than four digits.
Strftime(t) ==
    Decimal(t.year) \o <<"-">> \o Pad2(t.month) \o <<"-">> \o Pad2(t.day)
        \o <<" ">> \o Pad2(t.hour) \o <<":">> \o Pad2(t.minute)

\* Days from 1970-01-01 to the day of t, and minutes to t.
LeapsBefore(y) == ((y - 1) \div 4) - ((y - 1) \div 100) + ((y - 1) \div 400)
DaysBeforeMonth(y, m) ==
    <<0, 31, 59, 90, 120, 151, 181, 212, 243, 273, 304, 334>>[m]
        + (IF m > 2 /\ ((y % 4 = 0 /\ y % 100 # 0) \/ y % 400 = 0) THEN 1 ELSE 0)
DayNumber(t) ==
    365 * (t.year - 1970) + (LeapsBefore(t.year) - LeapsBefore(1970))
        + DaysBeforeMonth(t.year, t.month) + (t.day - 1)
Minutes(t) == DayNumber(t) * 1440 + t.hour * 60 + t.minute

DigitVal(c) == (CHOOSE i \in 1..10 : Digits[i] = c) - 1

RECURSIVE ParseInt(_)
ParseInt(s) ==
    IF s = <<>> THEN 0
    ELSE 10 * ParseInt(SubSeq(s, 1, Len(s) - 1)) + DigitVal(s[Len(s)])

\* pd.to_datetime(text).to_period('M'): the calendar month of a formatted date.
ToPeriodM(text) ==
    LET dash == Find(text, <<"-">>)
    IN  [year |-> ParseInt(SubSeq(text, 1, dash)),
         month |-> ParseInt(SubSeq(text, dash + 2, dash + 3))]

\* str(Period): 'YYYY-MM'
PeriodStr(p) ==
    Pad2(p.year \div 100) \o Pad2(p.year % 100) \o <<"-">> \o Pad2(p.month)

\* Periods order chronologically.
PeriodOrd(p) == p.year * 12 + (p.month - 1)

(***************************************************************************)
(* The service's records.  A raw backup job is the dict list_backup_jobs    *)
(* returns: the optional keys are absent from some jobs.                    *)
(***************************************************************************)
HalfGiB == 512 * 1024 * 1024

Arn_a_v1 == <<"a", "/", "v", "1">>
Arn_b_v1 == <<"b", "/", "v", "1">>
Arn_a_v2 == <<"a", "/", "v", "2">>
Arn_a_x_v2 == <<"a", "/", "x", "/", "v", "2">>
Arn_v3 == <<"v", "3">>

At(y, mo, d, h, mi) == [year |-> y, month |-> mo, day |-> d, hour |-> h, minute |-> mi]

Job1 ==
    [BackupJobId |-> "job-1", ResourceArn |-> Arn_a_v1, ResourceType |-> "EBS",
     BackupSizeInBytes |-> HalfGiB, CreationDate |-> At(2024, 1, 5, 8, 5),
     CompletionDate |-> At(2024, 1, 5, 9, 30), State |-> "COMPLETED",
     BackupVaultName |-> "vault-a", RecoveryPointArn |-> "rp-1"]

Job2 ==
    [BackupJobId |-> "job-2", ResourceArn |-> Arn_b_v1,
     BackupSizeInBytes |-> 2 * HalfGiB, CreationDate |-> At(2024, 1, 20, 23, 59),
     CompletionDate |-> At(2024, 1, 21, 0, 10), State |-> "COMPLETED",
     StatusMessage |-> <<"A", "n", " ", "I", "S", "S", "U", "E">>]

Job3 ==
    [BackupJobId |-> "job-3", ResourceArn |-> Arn_a_v1, ResourceType |-> "EC2",
     BackupSizeInBytes |-> 3 * HalfGiB, CreationDate |-> At(2024, 1, 31, 0, 0),
     CompletionDate |-> At(2024, 2, 1, 0, 0), State |-> "COMPLETED",
     StatusMessage |-> <<"o", "k">>, BackupVaultName |-> "vault-b",
     RecoveryPointArn |-> "rp-3"]

Job4 ==
    [BackupJobId |-> "job-4", ResourceArn |-> Arn_a_x_v2, ResourceType |-> "RDS",
     CreationDate |-> At(2024, 3, 1, 0, 0), State |-> "FAILED",
     StatusMessage |-> <<"i", "s", "s", "u", "e">>, BackupVaultName |-> "vault-a"]

Job5 ==
    [BackupJobId |-> "job-5", ResourceArn |-> Arn_v3, ResourceType |-> "S3",
     BackupSizeInBytes |-> 2 * HalfGiB, CreationDate |-> At(2024, 2, 29, 23, 59),
     State |-> "EXPIRED", BackupVaultName |-> "vault-b"]

Job6 ==
    [BackupJobId |-> "job-6", ResourceArn |-> Arn_a_v2, ResourceType |-> "RDS",
     BackupSizeInBytes |-> HalfGiB, CreationDate |-> At(2024, 1, 9, 12, 0),
     State |-> "ABORTED", StatusMessage |-> <<"I", "s", "s", "u", "e">>,
     BackupVaultName |-> "vault-a"]

Job7 ==
    [BackupJobId |-> "job-7", ResourceArn |-> Arn_a_v2, ResourceType |-> "RDS",
     BackupSizeInBytes |-> 3 * HalfGiB, CreationDate |-> At(2024, 3, 15, 10, 45),
     CompletionDate |-> At(2024, 3, 15, 11, 0), State |-> "COMPLETED",
     StatusMessage |-> <<"i", "s", " ", "s", "u", "e">>, BackupVaultName |-> "vault-b",
     RecoveryPointArn |-> "rp-7"]

Job8 ==
    [BackupJobId |-> "job-8", ResourceArn |-> Arn_b_v1, ResourceType |-> "EBS",
     BackupSizeInBytes |-> 0, CreationDate |-> At(2024, 1, 2, 12, 1),
     State |-> "PARTIAL", StatusMessage |-> <<>>, RecoveryPointArn |-> "rp-8"]

\* A job created before the window of a run opens.
Job9 ==
    [BackupJobId |-> "job-9", ResourceArn |-> Arn_v3, ResourceType |-> "S3",
     BackupSizeInBytes |-> HalfGiB, CreationDate |-> At(2023, 12, 31, 23, 59),
     CompletionDate |-> At(2024, 1, 1, 0, 30), State |-> "COMPLETED",
     BackupVaultName |-> "vault-b", RecoveryPointArn |-> "rp-9"]

\* The jobs a job list is drawn from: jobs list_backup_jobs can return.
JobCatalog == {Job1, Job2, Job3, Job4, Job5, Job6, Job7, Job8}

\* The jobs an account of a run of main() is drawn from.
AccountCatalog == {Job1, Job4, Job9}

SeqsUpTo(S, n) == UNION {[1..k -> S] : k \in 0..n}

(***************************************************************************)
(* get_unique_resources                                                     *)
(***************************************************************************)
\* line 203: job['ResourceArn'].split('/')[-1]
UniqueResourceId(job) ==
    LET parts == Split(job.ResourceArn, "/") IN parts[Len(parts)]

\* lines 205-211: the record inserted for a resource.
ResourceRecord(job) ==
    [resource_id |-> UniqueResourceId(job),
     resource_type |-> Get(job, "ResourceType", NA),
     resource_arn |-> job.ResourceArn,
     last_backup |-> Strftime(job.CreationDate),
     backup_vault |-> Get(job, "BackupVaultName", NA)]

\* A later job of a resource replaces the record (what the code does not do).
RecordJobOverwriting(acc, job) ==
    IF \E i \in DOMAIN acc : acc[i].resource_id = UniqueResourceId(job)
    THEN [i \in DOMAIN acc |->
            IF acc[i].resource_id = UniqueResourceId(job)
            THEN ResourceRecord(job) ELSE acc[i]]
    ELSE Append(acc, ResourceRecord(job))

\* lines 203-211: one iteration of the scan; the dict keeps insertion order.
RecordJob(acc, job) ==
    IF \E i \in DOMAIN acc : acc[i].resource_id = UniqueResourceId(job)
    THEN acc
    ELSE Append(acc, ResourceRecord(job))

RECURSIVE ScanResources(_, _)
ScanResources(acc, js) ==
    IF js = <<>> THEN acc ELSE ScanResources(RecordJob(acc, js[1]), Tail(js))

\* the values of the dict, in insertion order
get_unique_resources(js) == ScanResources(<<>>, js)

(***************************************************************************)
(* get_job_status_summary                                                   *)
(***************************************************************************)
\* The same test, without lower().
HasIssueCaseSensitive(job) ==
    Find(Get(job, "StatusMessage", <<>>), <<"i", "s", "s", "u", "e">>) # -1

\* line 221: job.get('StatusMessage', '').lower().find('issue') != -1
HasIssue(job) ==
    Find(Lower(Get(job, "StatusMessage", <<>>)), <<"i", "s", "s", "u", "e">>) # -1

\* lines 220-224: the key under which a job is counted.
StatusKey(job) ==
    IF job.State = "COMPLETED" /\ HasIssue(job)
    THEN "COMPLETED_WITH_ISSUES"
    ELSE job.State

\* The count is set, not incremented.
IncrementLost(d, key) ==
    [k \in DOMAIN d \cup {key} |-> IF k = key THEN 1 ELSE d[k]]

\* status_summary[key] += 1 on a defaultdict(int)
Increment(d, key) ==
    [k \in DOMAIN d \cup {key} |-> IF k = key THEN Get(d, key, 0) + 1 ELSE d[k]]

RECURSIVE CountStatuses(_, _)
CountStatuses(d, js) ==
    IF js = <<>> THEN d
    ELSE CountStatuses(Increment(d, StatusKey(js[1])), Tail(js))

EmptyDict == [k \in {} |-> 0]

get_job_status_summary(js) == CountStatuses(EmptyDict, js)

(***************************************************************************)
(* generate_backup_report: the per-job view and the document.               *)
(***************************************************************************)
\* The first part of the locator instead of the last.
BackupResourceIdFirst(job) == Split(job.ResourceArn, "/")[1]

\* line 245
BackupResourceId(job) ==
    LET parts == Split(job.ResourceArn, "/") IN parts[Len(parts)]

\* line 247: job.get('BackupSizeInBytes', 0) / (1024**3)
BackupSizeGb(job) == Frac(Get(job, "BackupSizeInBytes", 0), 1024 * 1024 * 1024)

\* lines 243-254
BackupView(job) ==
    [backup_job_id |-> Get(job, "BackupJobId", NA),
     resource_id |-> BackupResourceId(job),
     resource_type |-> Get(job, "ResourceType", NA),
     backup_size_gb |-> BackupSizeGb(job),
     creation_date |-> Strftime(job.CreationDate),
     completion_date |->
        IF "CompletionDate" \in DOMAIN job THEN Strftime(job.CompletionDate) ELSE NAStr,
     state |-> Get(job, "State", NA),
     status_message |-> Get(job, "StatusMessage", NAStr),
     vault_name |-> Get(job, "BackupVaultName", NA),
     recovery_point_arn |-> Get(job, "RecoveryPointArn", NA)]

Backups(js) == [i \in 1..Len(js) |-> BackupView(js[i])]

(***************************************************************************)
(* get_backup_jobs: the service's answer to one state filter.               *)
(***************************************************************************)
\* line 130
States == <<"COMPLETED", "FAILED", "EXPIRED", "PARTIAL">>

PageSize == 1         \* jobs per page of list_backup_jobs

RECURSIVE Chunks(_, _)
Chunks(s, n) ==
    IF Len(s) <= n THEN <<s>>
    ELSE <<SubSeq(s, 1, n)>> \o Chunks(SubSeq(s, n + 1, Len(s)), n)

\* datetime.now(), the same throughout a run.
Now == At(2024, 4, 1, 12, 0)

\* line 124: days, the length of the window
Days == 90

\* lines 126 and 135: ByCreatedAfter = now - timedelta(days): the service
\* answers with the jobs created after that moment.
CreatedAfterStart(job) == Minutes(job.CreationDate) > Minutes(Now) - Days * 1440

\* paginate(ByCreatedAfter=start_date, ByState=state): the pages holding the
\* account's jobs in that state created inside the window; a filter that
\* matches nothing still answers with one, empty, page.
JobPages(account, state) ==
    Chunks(SelectSeq(account, LAMBDA j : j.State = state /\ CreatedAfterStart(j)),
           PageSize)

(***************************************************************************)
(* get_backup_plans: the account's plans, and the entry built for a plan.   *)
(***************************************************************************)
\* list_backup_plans
AwsPlans ==
    <<[BackupPlanId |-> "plan-1", BackupPlanName |-> "daily", VersionId |-> "ver-1",
       CreationDate |-> At(2023, 11, 1, 9, 0), DeploymentStatus |-> "COMPLETED"],
      [BackupPlanId |-> "plan-2", CreationDate |-> At(2023, 11, 2, 18, 30)]>>

\* get_backup_plan(BackupPlanId)['BackupPlan']
PlanDetails(id) ==
    IF id = "plan-1"
    THEN [Rules |-> <<
            [RuleName |-> "nightly", TargetBackupVaultName |-> "vault-a",
             ScheduleExpression |-> "cron(0 5 * * ? *)", StartWindowMinutes |-> 60,
             CompletionWindowMinutes |-> 120, Lifecycle |-> [DeleteAfterDays |-> 30],
             EnableContinuousBackup |-> TRUE],
            [RuleName |-> "weekly"] >>]
    ELSE [BackupPlanName |-> "empty"]

\* get_backup_selection(...)['BackupSelection'], for each selection listed
PlanSelections(id) ==
    IF id = "plan-1"
    THEN << [SelectionName |-> "volumes", IamRoleArn |-> "role-a",
             Resources |-> <<Arn_a_v1, Arn_a_v2>>],
            [SelectionName |-> "tagged", IamRoleArn |-> "role-a",
             Conditions |-> [StringEquals |-> "backup=true"]] >>
    ELSE << [IamRoleArn |-> "role-b", Resources |-> <<Arn_v3>>] >>

\* lines 166-171
SelectionEntry(sel) ==
    [selection_name |-> Get(sel, "SelectionName", NA),
     iam_role_arn |-> Get(sel, "IamRoleArn", NA),
     resources |-> Get(sel, "Resources", <<>>),
     conditions |-> Get(sel, "Conditions", EmptyDict)]

\* lines 181-189
RuleEntry(rule) ==
    [rule_name |-> Get(rule, "RuleName", NA),
     target_vault_name |-> Get(rule, "TargetBackupVaultName", NA),
     schedule_expression |-> Get(rule, "ScheduleExpression", NA),
     start_window_minutes |-> Get(rule, "StartWindowMinutes", NA),
     completion_window_minutes |-> Get(rule, "CompletionWindowMinutes", NA),
     lifecycle |-> Get(rule, "Lifecycle", EmptyDict),
     enable_continuous_backup |-> Get(rule, "EnableContinuousBackup", FALSE)]

\* lines 175-191: the entry appended for a plan, with the selections gathered.
PlanEntry(plan, sels) ==
    LET rules == Get(PlanDetails(plan.BackupPlanId), "Rules", <<>>)
    IN  [plan_id |-> plan.BackupPlanId,
         plan_name |-> Get(plan, "BackupPlanName", NA),
         version_id |-> Get(plan, "VersionId", NA),
         creation_date |-> Strftime(plan.CreationDate),
         deployment_status |-> Get(plan, "DeploymentStatus", NA),
         rules |-> [i \in 1..Len(rules) |-> RuleEntry(rules[i])],
         selections |-> sels]

(***************************************************************************)
(* get_ebs_volumes and get_snapshots                                        *)
(***************************************************************************)
\* describe_volumes
AwsVolumes ==
    <<[VolumeId |-> "vol-1", Size |-> 100, VolumeType |-> "gp3", State |-> "in-use",
       CreateTime |-> At(2023, 10, 1, 7, 15), Encrypted |-> TRUE,
       AvailabilityZone |-> "az-a",
       Attachments |-> <<[InstanceId |-> "i-1", Device |-> "/dev/sda1"]>>,
       Tags |-> <<[Key |-> "Owner", Value |-> "ops"], [Key |-> "Name", Value |-> "data"]>>],
      [VolumeId |-> "vol-2", Size |-> 8, VolumeType |-> "gp2", State |-> "available",
       CreateTime |-> At(2023, 10, 2, 7, 15), AvailabilityZone |-> "az-b",
       Attachments |-> <<>>]>>

\* next((tag['Value'] for tag in tags if tag['Key'] == 'Name'), 'N/A')
NameTag(tags) ==
    LET at == {i \in DOMAIN tags : tags[i].Key = "Name"}
    IN  IF at = {} THEN NA ELSE tags[CHOOSE i \in at : \A j \in at : i <= j].Value

\* lines 58-83
VolumeInfo(volume) ==
    [volume_id |-> volume.VolumeId,
     size_gb |-> volume.Size,
     volume_type |-> volume.VolumeType,
     state |-> volume.State,
     creation_date |-> Strftime(volume.CreateTime),
     encrypted |-> Get(volume, "Encrypted", FALSE),
     availability_zone |-> volume.AvailabilityZone,
     attached_instance |->
        IF volume.Attachments # <<>> THEN volume.Attachments[1].InstanceId
        ELSE "Not Attached",
     device |-> IF volume.Attachments # <<>> THEN volume.Attachments[1].Device ELSE NA,
     name |-> NameTag(Get(volume, "Tags", <<>>))]

\* lines 51-88: the list, or [] when a request raised.
get_ebs_volumes(raised) ==
    IF raised THEN <<>> ELSE [i \in 1..Len(AwsVolumes) |-> VolumeInfo(AwsVolumes[i])]

\* describe_snapshots(OwnerIds=['self'])
AwsSnapshots ==
    <<[SnapshotId |-> "snap-1", VolumeId |-> "vol-1", StartTime |-> At(2024, 1, 5, 8, 5),
       VolumeSize |-> 100, State |-> "completed", Progress |-> "100%",
       Description |-> "nightly", Encrypted |-> TRUE,
       Tags |-> <<[Key |-> "Name", Value |-> "data-snap"]>>],
      [SnapshotId |-> "snap-2", StartTime |-> At(2024, 3, 1, 0, 0), VolumeSize |-> 8,
       State |-> "pending", Progress |-> "40%"]>>

\* lines 99-114
SnapshotInfo(snapshot) ==
    [snapshot_id |-> snapshot.SnapshotId,
     volume_id |-> Get(snapshot, "VolumeId", NA),
     start_time |-> Strftime(snapshot.StartTime),
     size_gb |-> snapshot.VolumeSize,
     state |-> snapshot.State,
     progress |-> snapshot.Progress,
     description |-> Get(snapshot, "Description", NA),
     encrypted |-> Get(snapshot, "Encrypted", FALSE),
     name |-> NameTag(Get(snapshot, "Tags", <<>>))]

\* lines 92-121
get_snapshots(raised) ==
    IF raised THEN <<>>
    ELSE [i \in 1..Len(AwsSnapshots) |-> SnapshotInfo(AwsSnapshots[i])]

(***************************************************************************)
(* create_excel_report: the tables projected from a report document.        *)
(***************************************************************************)
\* lines 294-295: min() and max() of an empty sequence raise ValueError.
ExcelRaises(rep) == rep.backups = <<>>

Column(rows, field) == [i \in 1..Len(rows) |-> rows[i][field]]

\* lines 272-307: the label/value pairs of the Summary sheet.
SummaryTable(rep) ==
    << <<"Report Generation Date", rep.generated_at>>,
       <<"Region", rep.region>>,
       <<"Period (days)", rep.period_days>>,
       <<"First Backup Date", StrMin(Range(Column(rep.backups, "creation_date")))>>,
       <<"Last Backup Date", StrMax(Range(Column(rep.backups, "creation_date")))>>,
       <<"Total Unique Resources", Len(rep.unique_resources)>>,
       <<"Total Backups", Len(rep.backups)>>,
       <<"Total Size (TB)",
         Round2(FracDivInt(FracSum(Column(rep.backups, "backup_size_gb")), 1024))>>,
       <<"", "">>,
       <<"Job Status Summary:", "">>,
       <<"COMPLETED", Get(rep.job_status_summary, "COMPLETED", 0)>>,
       <<"COMPLETED_WITH_ISSUES", Get(rep.job_status_summary, "COMPLETED_WITH_ISSUES", 0)>>,
       <<"FAILED", Get(rep.job_status_summary, "FAILED", 0)>>,
       <<"EXPIRED", Get(rep.job_status_summary, "EXPIRED", 0)>>,
       <<"PARTIAL", Get(rep.job_status_summary, "PARTIAL", 0)>> >>

RECURSIVE SumLens(_)
SumLens(sels) ==
    IF sels = <<>> THEN 0
    ELSE Len(Get(sels[1], "resources", <<>>)) + SumLens(Tail(sels))

\* lines 321-330
PlanRow(plan, rule) ==
    [PlanName |-> plan.plan_name,
     PlanID |-> plan.plan_id,
     CreationDate |-> plan.creation_date,
     RuleName |-> Get(rule, "rule_name", NA),
     Schedule |-> Get(rule, "schedule_expression", NA),
     Vault |-> Get(rule, "target_vault_name", NA),
     RetentionDays |-> Get(Get(rule, "lifecycle", EmptyDict), "DeleteAfterDays", NA),
     ResourcesCount |-> SumLens(plan.selections)]

\* lines 318-330: one row per rule of each plan.
RECURSIVE PlansTable(_)
PlansTable(ps) ==
    IF ps = <<>> THEN <<>>
    ELSE [i \in 1..Len(ps[1].rules) |-> PlanRow(ps[1], ps[1].rules[i])]
            \o PlansTable(Tail(ps))

\* lines 341-344: one iteration; the defaultdict keeps insertion order.
AddToResource(acc, job) ==
    IF \E i \in DOMAIN acc : acc[i].res_id = job.resource_id
    THEN [i \in DOMAIN acc |->
            IF acc[i].res_id = job.resource_id
            THEN [res_id |-> acc[i].res_id, count |-> acc[i].count + 1,
                  size |-> FracAdd(acc[i].size, job.backup_size_gb)]
            ELSE acc[i]]
    ELSE Append(acc, [res_id |-> job.resource_id, count |-> 1,
                      size |-> FracAdd(Zero, job.backup_size_gb)])

RECURSIVE GroupByResource(_, _)
GroupByResource(acc, rows) ==
    IF rows = <<>> THEN acc
    ELSE GroupByResource(AddToResource(acc, rows[1]), Tail(rows))

\* lines 346-351
ResourceRow(data) ==
    [ResourceID |-> data.res_id,
     TotalBackups |-> data.count,
     TotalSizeTB |-> Round2(FracDivInt(data.size, 1024)),
     AverageSizeGB |-> Round2(FracDivInt(data.size, data.count))]

\* lines 340-351
ResourceSummaryTable(rep) ==
    LET groups == GroupByResource(<<>>, rep.backups)
    IN  [i \in 1..Len(groups) |-> ResourceRow(groups[i])]

\* line 357: pd.to_datetime(...).dt.to_period('M') of one creation date.
MonthOf(row) == ToPeriodM(row.creation_date)

RECURSIVE SortedPeriods(_)
SortedPeriods(S) ==
    IF S = {} THEN <<>>
    ELSE LET m == CHOOSE p \in S : \A q \in S : PeriodOrd(p) <= PeriodOrd(q)
         IN  <<m>> \o SortedPeriods(S \ {m})

\* pivot_table(columns=['Month']): the column keys are the months that occur
\* in the frame, in chronological order.
PivotMonths(rows) == SortedPeriods({rows[i].Month : i \in DOMAIN rows})

\* pivot_table(index=['resource_id']): the row keys, sorted.
PivotIndex(rows) == SortedStrs({rows[i].resource_id : i \in DOMAIN rows})

\* The sizes of the jobs of one resource in one month, in frame order.
CellSizes(rows, id, month) ==
    Column(SelectSeq(rows, LAMBDA r : r.resource_id = id /\ r.Month = month),
           "backup_size_gb")

\* The mean taken over one job too many.
AggMeanOffByOne(sizes) == FracDivInt(FracSum(sizes), Len(sizes) + 1)

\* aggfunc='mean' (line 373)
AggMean(sizes) == FracDivInt(FracSum(sizes), Len(sizes))

\* aggfunc='mean', 'count', 'sum' (lines 373, 383, 393)
Aggregate(aggfunc, sizes) ==
    CASE aggfunc = "mean" -> AggMean(sizes)
      [] aggfunc = "count" -> Frac(Len(sizes), 1)
      [] aggfunc = "sum" -> FracSum(sizes)

\* The cell of a missing pair left empty.
FillValueMissing == NaN

\* fill_value=0 (lines 374, 384, 394)
FillValue == Zero

\* lines 368-395: pd.pivot_table(df_jobs, values='backup_size_gb',
\* index=['resource_id'], columns=['Month'], aggfunc=..., fill_value=0)
pivot_table(rows, aggfunc) ==
    LET index == PivotIndex(rows)
        months == PivotMonths(rows)
    IN  [index |-> index,
         columns |-> months,
         cell |-> [k \in Range(index) \X Range(months) |->
                    LET sizes == CellSizes(rows, k[1], k[2])
                    IN  IF sizes = <<>> THEN FillValue
                        ELSE Aggregate(aggfunc, sizes)]]

CountSuffix == <<" ", "(", "C", "o", "u", "n", "t", ")">>
AvgSuffix == <<" ", "(", "G", "B", " ", "A", "v", "g", ")">>
TotalSuffix == <<" ", "(", "G", "B", " ", "T", "o", "t", "a", "l", ")">>

\* lines 398-400: the columns renamed f"{col} (...)"
Relabel(pivot, suffix) ==
    [index |-> pivot.index,
     columns |-> [i \in 1..Len(pivot.columns) |-> PeriodStr(pivot.columns[i]) \o suffix],
     cell |-> [k \in Range(pivot.index)
                        \X {PeriodStr(m) \o suffix : m \in Range(pivot.columns)} |->
                 pivot.cell[<<k[1],
                              CHOOSE m \in Range(pivot.columns) :
                                  PeriodStr(m) \o suffix = k[2]>>]]]

\* lines 403-410
RECURSIVE Triplets(_)
Triplets(months) ==
    IF months = <<>> THEN <<>>
    ELSE <<months[1] \o CountSuffix, months[1] \o AvgSuffix, months[1] \o TotalSuffix>>
            \o Triplets(Tail(months))

SortedColumns(size_pivot) ==
    Triplets(SortedStrs({Split(size_pivot.columns[i], " ")[1] :
                            i \in DOMAIN size_pivot.columns}))

\* lines 412-413: pd.concat([...], axis=1).reindex(columns=sorted_columns); a
\* label that no frame has becomes a column of NaN.
ConcatReindex(frames, sorted_columns) ==
    LET index == frames[1].index
    IN  [index |-> index,
         columns |-> sorted_columns,
         cell |-> [k \in Range(index) \X Range(sorted_columns) |->
                    IF \E f \in DOMAIN frames : k \in DOMAIN frames[f].cell
                    THEN frames[CHOOSE f \in DOMAIN frames :
                                    k \in DOMAIN frames[f].cell].cell[k]
                    ELSE NaN]]

\* lines 368-413: the Monthly Resource Summary, from the jobs frame with its
\* Month column.
MonthlyTable(df_jobs) ==
    LET size_pivot == Relabel(pivot_table(df_jobs, "mean"), AvgSuffix)
        count_pivot == Relabel(pivot_table(df_jobs, "count"), CountSuffix)
        total_pivot == Relabel(pivot_table(df_jobs, "sum"), TotalSuffix)
    IN  ConcatReindex(<<count_pivot, size_pivot, total_pivot>>,
                      SortedColumns(size_pivot))

(***************************************************************************)
(* The objects create_excel_report works on: the report it was given and    *)
(* the frames pandas builds for it.  A local variable refers either to a    *)
(* frame of its own or to a part of the report, and a statement that        *)
(* changes an object changes the one its variable refers to.                *)
(***************************************************************************)
RECURSIVE PathGet(_, _)
PathGet(obj, path) ==
    IF path = <<>> THEN obj ELSE PathGet(obj[Head(path)], Tail(path))

RECURSIVE PathSet(_, _, _)
PathSet(obj, path, val) ==
    IF path = <<>> THEN val
    ELSE [obj EXCEPT ![Head(path)] = PathSet(obj[Head(path)], Tail(path), val)]

\* The frame variable made another name of the list it was built from.
DataFrameAliased(st, name, path) ==
    [st EXCEPT !.locals = (name :> [path |-> path]) @@ st.locals]

\* name = pd.DataFrame(report[path]) (lines 314, 336, 360, 364): a new frame,
\* one row per record with the record's keys as columns; the records are
\* dictionaries, so the frame holds their values in arrays of its own.
DataFrame(st, name, path) ==
    [st EXCEPT !.frames = (name :> PathGet(st.report, path)) @@ st.frames,
               !.locals = (name :> [frame |-> name]) @@ st.locals]

\* The rows the variable refers to (to_excel, pivot_table and df[...] read
\* them).
Rows(st, name) ==
    LET ref == st.locals[name]
    IN  IF "frame" \in DOMAIN ref THEN st.frames[ref.frame]
        ELSE PathGet(st.report, ref.path)

\* name[column] = values (line 357): the column is set in every row of the
\* object the variable refers to.
SetColumn(st, name, column, values) ==
    LET ref == st.locals[name]
        rows == Rows(st, name)
        assigned == [i \in 1..Len(rows) |-> (column :> values[i]) @@ rows[i]]
    IN  IF "frame" \in DOMAIN ref
        THEN [st EXCEPT !.frames = (ref.frame :> assigned) @@ st.frames]
        ELSE [st EXCEPT !.report = PathSet(st.report, ref.path, assigned)]

\* lines 265-415, when nothing raises: the sheets written, each from the
\* objects as they are when its to_excel runs, and the report argument as the
\* call leaves it.
create_excel_report(rep) ==
    LET entered == [report |-> rep, frames |-> <<>>, locals |-> <<>>]
        summary == SummaryTable(entered.report)
        resources == DataFrame(entered, "df_resources", <<"unique_resources">>)
        plans_data == PlansTable(resources.report.plans)
        jobs_frame == DataFrame(resources, "df_jobs", <<"backups">>)
        jobs_sheet == Rows(jobs_frame, "df_jobs")
        resource_data == ResourceSummaryTable(jobs_frame.report)
        months == [i \in 1..Len(jobs_sheet) |-> MonthOf(jobs_sheet[i])]
        month_set == SetColumn(jobs_frame, "df_jobs", "Month", months)
        volumes == DataFrame(month_set, "df_volumes", <<"storage", "ebs_volumes">>)
        snapshots == DataFrame(volumes, "df_snapshots", <<"storage", "snapshots">>)
    IN  [sheets |->
            [Summary |-> summary,
             UniqueResources |-> Rows(resources, "df_resources"),
             BackupPlans |-> plans_data,
             BackupJobs |-> jobs_sheet,
             ResourceSummary |-> resource_data,
             EBSVolumes |-> Rows(volumes, "df_volumes"),
             Snapshots |-> Rows(snapshots, "df_snapshots"),
             MonthlyResourceSummary |-> MonthlyTable(Rows(snapshots, "df_jobs"))],
         report |-> snapshots.report]

(***************************************************************************)
(* The region prompt.  A region name and an answer typed at the prompt are  *)
(* sequences of characters.                                                 *)
(***************************************************************************)
UsEast1 == <<"u", "s", "-", "e", "a", "s", "t", "-", "1">>
EuWest1 == <<"e", "u", "-", "w", "e", "s", "t", "-", "1">>

\* line 13: session.get_available_regions('backup')
ServiceRegions == <<UsEast1, EuWest1>>

\* The code points of a string.
Codes(s) == [i \in 1..Len(s) |-> CharOrd(s[i])]

\* The lines a user may type, as sequences of code points: numerals in and
\* out of range, with blanks and a TAB around them, a superscript two and an
\* Arabic-Indic one, region names, and lines that are neither.
Answers ==
    {Codes(<<"1">>), Codes(<<" ", "2", " ">>), <<9, 49>>, Codes(<<"0">>),
     Codes(<<"7">>), <<178>>, <<49, 179>>, <<1633>>, <<>>, <<160>>,
     Codes(UsEast1), <<32>> \o Codes(EuWest1) \o <<9>>,
     Codes(<<"b", "o", "g", "u", "s">>)}

\* str.isspace(), one character (Unicode 14).
WhiteSpace ==
    (9..13) \cup (28..32) \cup {133, 160, 5760} \cup (8192..8202)
        \cup {8232, 8233, 8239, 8287, 12288}

\* str.strip()
RECURSIVE LStrip(_)
LStrip(s) == IF s # <<>> /\ s[1] \in WhiteSpace THEN LStrip(Tail(s)) ELSE s
RECURSIVE RStrip(_)
RStrip(s) ==
    IF s # <<>> /\ s[Len(s)] \in WhiteSpace
    THEN RStrip(SubSeq(s, 1, Len(s) - 1)) ELSE s
Strip(s) == RStrip(LStrip(s))

\* The code points of the digit zero of every script (Unicode 14): the nine
\* that follow each are its digits one to nine.
DecimalZeros ==
    {48, 1632, 1776, 1984, 2406, 2534, 2662, 2790, 2918, 3046, 3174, 3302, 3430,
     3558, 3664, 3792, 3872, 4160, 4240, 6112, 6160, 6470, 6608, 6784, 6800,
     6992, 7088, 7232, 7248, 42528, 43216, 43264, 43472, 43504, 43600, 44016,
     65296, 66720, 68912, 69734, 69872, 69942, 70096, 70384, 70736, 70864,
     71248, 71360, 71472, 71904, 72016, 72784, 73040, 73120, 92768, 92864,
     93008, 120782, 120792, 120802, 120812, 120822, 123200, 123632, 125264,
     130032}

\* str.isdecimal(), one character
IsDecimal(c) == \E z \in DecimalZeros : z <= c /\ c <= z + 9

\* The digits that are not decimal ones (superscripts, subscripts, circled
\* digits, ...): str.isdigit() accepts them, int() does not.
OtherDigits ==
    {178, 179, 185, 6618, 8304, 9450, 9471} \cup (4969..4977) \cup (8308..8313)
        \cup (8320..8329) \cup (9312..9320) \cup (9332..9340) \cup (9352..9360)
        \cup (9461..9469) \cup (10102..10110) \cup (10112..10120)
        \cup (10122..10130) \cup (68160..68163) \cup (69216..69224)
        \cup (69714..69722) \cup (127232..127242)

\* str.isdigit()
IsDigit(s) == s # <<>> /\ \A i \in DOMAIN s : IsDecimal(s[i]) \/ s[i] \in OtherDigits

\* int(s) for a string of decimal digits of any script
RECURSIVE int(_)
int(s) ==
    IF s = <<>> THEN 0
    ELSE 10 * int(SubSeq(s, 1, Len(s) - 1))
           + (s[Len(s)] - (CHOOSE z \in DecimalZeros : z <= s[Len(s)] /\ s[Len(s)] <= z + 9))

\* lines 28-41: what one answer leads to: the region returned, or the line
\* printed before the prompt asks again.
Choose(regions, answer) ==
    LET choice == Strip(answer)
    IN  IF IsDigit(choice)
        THEN IF \E i \in DOMAIN choice : ~IsDecimal(choice[i])
             \* int(choice) raises ValueError unless every digit is a decimal one
             THEN [returned |-> FALSE, raised |-> TRUE]
             ELSE LET index == int(choice) - 1
                  IN  IF 0 <= index /\ index < Len(regions)
                      THEN [returned |-> TRUE, region |-> regions[index + 1]]
                      ELSE [returned |-> FALSE, raised |-> FALSE]
        ELSE IF \E k \in DOMAIN regions : Codes(regions[k]) = choice
        THEN [returned |-> TRUE,
              region |-> regions[CHOOSE k \in DOMAIN regions : Codes(regions[k]) = choice]]
        ELSE [returned |-> FALSE, raised |-> FALSE]

(***************************************************************************)
(* main(): one run.                                                         *)
(***************************************************************************)
\* A document, file or workbook that does not exist yet.
Nothing == [nothing |-> TRUE]

Line(text, arg) == [text |-> text, arg |-> arg]

Banner == "=== AWS Backup Analyzer ==="
PromptText == "Escolha o numero da regiao ou digite o nome da regiao diretamente: "
InvalidChoice == "Escolha invalida. Por favor, selecione uma regiao valida."
InvalidInput ==
    "Entrada invalida. Por favor, digite um numero ou nome de regiao valido."
StartLine == "Iniciando analise na regiao"
JobsError == "Erro ao obter jobs de backup"
SelectionsError == "Erro ao obter selecoes para plano"
PlansError == "Erro ao obter planos de backup"
VolumesError == "Erro ao obter volumes EBS"
SnapshotsError == "Erro ao obter snapshots"
RunError == "Erro durante a execucao"
CredentialsHint == "Por favor, verifique suas credenciais AWS e tente novamente."
JsonDone == "Relatorio JSON gerado"
ExcelDone == "Analise Excel gerada"
TotalLine == "Total de backups"
StatusLine == "Status Summary:"

Printed(text) == \E i \in DOMAIN console : console[i].text = text

\* A handler that catches ValueError alone.
MainExceptValueErrorOnly(exc) ==
    IF exc.type = "ValueError"
    THEN [outcome |-> "failed",
          lines |-> <<Line(RunError, exc.msg), Line(CredentialsHint, "")>>]
    ELSE [outcome |-> "propagated", lines |-> <<>>]

\* lines 448-450: except Exception as e
MainExcept(exc) ==
    [outcome |-> "failed",
     lines |-> <<Line(RunError, exc.msg), Line(CredentialsHint, "")>>]

\* An exception raised inside main's try block ends the run in its handler.
Raise(exc) ==
    /\ outcome' = MainExcept(exc).outcome
    /\ console' = console \o MainExcept(exc).lines
    /\ pc' = "done"

\* lines 22-24: the menu of regions.
Menu(regions) ==
    <<Line("Regioes AWS disponiveis:", "")>>
        \o [i \in 1..Len(regions) |-> Line("{i}. {region}", <<i, regions[i]>>)]

\* The answers the prompt has rejected so far.
Rejected ==
    Cardinality({i \in DOMAIN console : console[i].text \in {InvalidChoice, InvalidInput}})

Init ==
    /\ pc = "start"
    /\ available_regions = <<>>
    /\ region = <<>>
    /\ awsJobs \in SeqsUpTo(AccountCatalog, MaxAccountJobs)
    /\ stateIdx = 1
    /\ pageIdx = 0
    /\ jobs = <<>>
    /\ planIdx = 0
    /\ selIdx = 0
    /\ selections = <<>>
    /\ plans = <<>>
    /\ unique_resources = <<>>
    /\ job_status = EmptyDict
    /\ report = Nothing
    /\ jsonFile = Nothing
    /\ workbook = Nothing
    /\ console = <<>>
    /\ outcome = "running"
    /\ invocations = 0

\* lines 419-424 and 9-16: the banner, get_available_regions (an empty list
\* when the session raises) and the menu.
GetAvailableRegions(raised) ==
    /\ pc = "start"
    /\ available_regions' = IF raised THEN <<>> ELSE ServiceRegions
    /\ console' = console \o <<Line(Banner, "")>>
         \o (IF raised THEN <<Line("Erro ao obter regioes disponiveis", "no session")>> ELSE <<>>)
         \o Menu(available_regions')
    /\ pc' = "prompt"
    /\ UNCHANGED <<region, awsJobs, stateIdx, pageIdx, jobs, planIdx, selIdx,
                   selections, plans, unique_resources, job_status, report,
                   jsonFile, workbook, outcome, invocations>>

\* line 28: input() prints the prompt and waits for a line.
Ask ==
    /\ pc = "prompt"
    /\ console' = console \o <<Line(PromptText, "")>>
    /\ pc' = "input"
    /\ UNCHANGED <<available_regions, region, awsJobs, stateIdx, pageIdx, jobs,
                   planIdx, selIdx, selections, plans, unique_resources,
                   job_status, report, jsonFile, workbook, outcome, invocations>>

\* lines 28-41 and 423: the line is read; a region ends the prompt and main
\* announces it, anything else is rejected and the prompt asks again.
ReadChoice(answer) ==
    /\ pc = "input"
    /\ LET got == Choose(available_regions, answer)
       IN  IF got.returned
           THEN /\ region' = got.region
                /\ console' = console \o <<Line(StartLine, got.region)>>
                /\ pc' = "construct"
           ELSE /\ Rejected < MaxRejected
                /\ console' = console
                     \o <<Line(IF got.raised THEN InvalidInput ELSE InvalidChoice, "")>>
                /\ pc' = "prompt"
                /\ UNCHANGED region
    /\ UNCHANGED <<available_regions, awsJobs, stateIdx, pageIdx, jobs, planIdx,
                   selIdx, selections, plans, unique_resources, job_status, report,
                   jsonFile, workbook, outcome, invocations>>

\* line 28: input() at the end of the input raises EOFError, which neither
\* the prompt (it catches ValueError) nor main (line 422 is outside its try)
\* catches.
EndOfInput ==
    /\ pc = "input"
    /\ outcome' = "propagated"
    /\ pc' = "done"
    /\ UNCHANGED <<available_regions, region, awsJobs, stateIdx, pageIdx, jobs,
                   planIdx, selIdx, selections, plans, unique_resources,
                   job_status, report, jsonFile, workbook, console, invocations>>

\* line 427: AWSBackupAnalyzer(region); creating the clients may raise.
Construct(raised) ==
    /\ pc = "construct"
    /\ IF raised
       THEN Raise([type |-> "ClientError", msg |-> "could not create client"])
       ELSE pc' = "jobs" /\ UNCHANGED <<console, outcome>>
    /\ UNCHANGED <<available_regions, region, invocations, awsJobs, stateIdx, pageIdx, jobs, planIdx, selIdx, selections,
                   plans, unique_resources, job_status, report, jsonFile, workbook>>

\* lines 132-138: one page of one state filter is read and appended.
FetchJobsPage ==
    /\ pc = "jobs"
    /\ stateIdx <= Len(States)
    /\ LET pages == JobPages(awsJobs, States[stateIdx])
       IN  /\ jobs' = jobs \o pages[pageIdx + 1]
           /\ IF pageIdx + 1 = Len(pages)
              THEN stateIdx' = stateIdx + 1 /\ pageIdx' = 0
              ELSE stateIdx' = stateIdx /\ pageIdx' = pageIdx + 1
    /\ UNCHANGED <<pc, available_regions, region, invocations, awsJobs, planIdx, selIdx, selections, plans, unique_resources,
                   job_status, report, jsonFile, workbook, console, outcome>>

\* lines 141-143: a page request raises; the jobs read so far are dropped.
FetchJobsPageFails ==
    /\ pc = "jobs"
    /\ stateIdx <= Len(States)
    /\ jobs' = <<>>
    /\ console' = Append(console, Line(JobsError, "request failed"))
    /\ pc' = "plans"
    /\ UNCHANGED <<available_regions, region, invocations, awsJobs, stateIdx, pageIdx, planIdx, selIdx, selections, plans,
                   unique_resources, job_status, report, jsonFile, workbook, outcome>>

\* line 140: every filter is exhausted.
JobsFetched ==
    /\ pc = "jobs"
    /\ stateIdx > Len(States)
    /\ pc' = "plans"
    /\ UNCHANGED <<available_regions, region, invocations, awsJobs, stateIdx, pageIdx, jobs, planIdx, selIdx, selections,
                   plans, unique_resources, job_status, report, jsonFile, workbook,
                   console, outcome>>

\* lines 152-157: the next plan is listed and its detail fetched.
StartPlan ==
    /\ pc = "plans"
    /\ planIdx < Len(AwsPlans)
    /\ selections' = <<>>
    /\ selIdx' = 0
    /\ pc' = "selections"
    /\ UNCHANGED <<available_regions, region, invocations, awsJobs, stateIdx, pageIdx, jobs, planIdx, plans, unique_resources,
                   job_status, report, jsonFile, workbook, console, outcome>>

\* lines 194-196: listing the plans or fetching a plan's detail raises.
FetchPlansFails ==
    /\ pc = "plans"
    /\ planIdx < Len(AwsPlans)
    /\ plans' = <<>>
    /\ console' = Append(console, Line(PlansError, "request failed"))
    /\ pc' = "unique"
    /\ UNCHANGED <<available_regions, region, invocations, awsJobs, stateIdx, pageIdx, jobs, planIdx, selIdx, selections,
                   unique_resources, job_status, report, jsonFile, workbook, outcome>>

\* line 193
PlansFetched ==
    /\ pc = "plans"
    /\ planIdx = Len(AwsPlans)
    /\ pc' = "unique"
    /\ UNCHANGED <<available_regions, region, invocations, awsJobs, stateIdx, pageIdx, jobs, planIdx, selIdx, selections,
                   plans, unique_resources, job_status, report, jsonFile, workbook,
                   console, outcome>>

\* lines 161-171: one selection's detail is fetched and appended.
FetchSelection ==
    /\ pc = "selections"
    /\ LET sels == PlanSelections(AwsPlans[planIdx + 1].BackupPlanId)
       IN  /\ selIdx < Len(sels)
           /\ selections' = Append(selections, SelectionEntry(sels[selIdx + 1]))
    /\ selIdx' = selIdx + 1
    /\ UNCHANGED <<pc, available_regions, region, invocations, awsJobs, stateIdx, pageIdx, jobs, planIdx, plans,
                   unique_resources, job_status, report, jsonFile, workbook, console,
                   outcome>>

\* lines 172-191: a selection request raises; the handler prints, and the plan
\* is appended with the list as it stands.
FetchSelectionFails ==
    /\ pc = "selections"
    /\ LET plan == AwsPlans[planIdx + 1]
           sels == PlanSelections(plan.BackupPlanId)
       IN  /\ selIdx < Len(sels) \/ sels = <<>>
           /\ console' = Append(console, Line(SelectionsError, plan.BackupPlanId))
           /\ plans' = Append(plans, PlanEntry(plan, selections))
    /\ planIdx' = planIdx + 1
    /\ pc' = "plans"
    /\ UNCHANGED <<available_regions, region, invocations, awsJobs, stateIdx, pageIdx, jobs, selIdx, selections,
                   unique_resources, job_status, report, jsonFile, workbook, outcome>>

\* lines 175-191: every selection was read; the plan is appended.
AppendPlan ==
    /\ pc = "selections"
    /\ LET plan == AwsPlans[planIdx + 1]
       IN  /\ selIdx = Len(PlanSelections(plan.BackupPlanId))
           /\ plans' = Append(plans, PlanEntry(plan, selections))
    /\ planIdx' = planIdx + 1
    /\ pc' = "plans"
    /\ UNCHANGED <<available_regions, region, invocations, awsJobs, stateIdx, pageIdx, jobs, selIdx, selections,
                   unique_resources, job_status, report, jsonFile, workbook, console,
                   outcome>>

\* line 232
GetUniqueResources ==
    /\ pc = "unique"
    /\ unique_resources' = get_unique_resources(jobs)
    /\ pc' = "status"
    /\ UNCHANGED <<available_regions, region, invocations, awsJobs, stateIdx, pageIdx, jobs, planIdx, selIdx, selections,
                   plans, job_status, report, jsonFile, workbook, console, outcome>>

\* line 233
GetJobStatusSummary ==
    /\ pc = "status"
    /\ job_status' = get_job_status_summary(jobs)
    /\ pc' = "report"
    /\ UNCHANGED <<available_regions, region, invocations, awsJobs, stateIdx, pageIdx, jobs, planIdx, selIdx, selections,
                   plans, unique_resources, report, jsonFile, workbook, console,
                   outcome>>

\* lines 235-259: the document, from the analyzer's region and what the
\* collectors returned.
ReportDocument(reg, js, status, ps, resources, storage) ==
    [generated_at |-> Strftime(Now) \o <<":", "0", "0">>,
     region |-> reg,
     period_days |-> Days,
     total_backups |-> Len(js),
     job_status_summary |-> status,
     plans |-> ps,
     unique_resources |-> resources,
     backups |-> Backups(js),
     storage |-> storage]

\* lines 235-260: the document is assembled and the storage collectors run.
BuildReport(volumesRaise, snapshotsRaise) ==
    /\ pc = "report"
    /\ report' =
         ReportDocument(region, jobs, job_status, plans, unique_resources,
                        [ebs_volumes |-> get_ebs_volumes(volumesRaise),
                         snapshots |-> get_snapshots(snapshotsRaise)])
    /\ console' = console
         \o (IF volumesRaise THEN <<Line(VolumesError, "request failed")>> ELSE <<>>)
         \o (IF snapshotsRaise THEN <<Line(SnapshotsError, "request failed")>> ELSE <<>>)
    /\ pc' = "json"
    /\ UNCHANGED <<available_regions, region, invocations, awsJobs, stateIdx, pageIdx, jobs, planIdx, selIdx, selections,
                   plans, unique_resources, job_status, jsonFile, workbook, outcome>>

\* A file that open() created and json.dump did not finish.
Truncated == [truncated |-> TRUE]

\* lines 433-435: the document is written, unless the file system raises:
\* open() raises and there is no file, or it creates the file (line 434) and
\* json.dump raises part-way, leaving a truncated file behind.
WriteJson(failure) ==
    /\ pc = "json"
    /\ CASE failure = "open" ->
              /\ Raise([type |-> "OSError", msg |-> "cannot write the JSON file"])
              /\ UNCHANGED jsonFile
         [] failure = "dump" ->
              /\ Raise([type |-> "OSError", msg |-> "cannot write the JSON file"])
              /\ jsonFile' = Truncated
         [] failure = "none" ->
              /\ jsonFile' = report
              /\ pc' = "excel"
              /\ UNCHANGED <<console, outcome>>
    /\ UNCHANGED <<available_regions, region, invocations, awsJobs, stateIdx, pageIdx, jobs, planIdx, selIdx, selections,
                   plans, unique_resources, job_status, report, workbook>>

\* strftime("%Y%m%d_%H%M%S")
FileStamp(t) ==
    Decimal(t.year) \o Pad2(t.month) \o Pad2(t.day) \o <<"_">>
        \o Pad2(t.hour) \o Pad2(t.minute) \o <<"0", "0">>

\* line 433
json_file ==
    <<"a", "w", "s", "_", "b", "a", "c", "k", "u", "p", "_", "r", "e", "p", "o",
      "r", "t", "_">> \o FileStamp(Now) \o <<".", "j", "s", "o", "n">>

\* line 438
excel_file ==
    <<"a", "w", "s", "_", "b", "a", "c", "k", "u", "p", "_", "a", "n", "a", "l",
      "y", "s", "i", "s", "_">> \o FileStamp(Now) \o <<".", "x", "l", "s", "x">>

\* lines 441-446
SuccessLines(rep) ==
    <<Line(JsonDone, json_file),
      Line(ExcelDone, excel_file),
      Line(TotalLine, rep.total_backups),
      Line(StatusLine, rep.job_status_summary)>>

\* The file xlsxwriter saves when no sheet was added: one empty sheet.
BlankWorkbook == [Sheet1 |-> <<>>]

\* lines 438-446: the workbook is produced and the success lines printed,
\* unless create_excel_report raises.  The writer is created first (line 265)
\* and closed last, also after an exception in the block: when it cannot be
\* created or closed that is the exception main sees and no file is written;
\* otherwise min() of no backups (line 294) raises before the first sheet,
\* and closing the writer leaves a blank workbook behind.
WriteExcel(raised) ==
    /\ pc = "excel"
    /\ invocations' = invocations + 1
    /\ IF raised
       THEN /\ Raise([type |-> "OSError", msg |-> "cannot write the workbook"])
            /\ UNCHANGED <<workbook, report>>
       ELSE IF ExcelRaises(report)
       THEN /\ Raise([type |-> "ValueError", msg |-> "min() arg is an empty sequence"])
            /\ workbook' = BlankWorkbook
            /\ UNCHANGED report
       ELSE LET call == create_excel_report(report)
            IN  /\ workbook' = call.sheets
                /\ report' = call.report
                /\ console' = console \o SuccessLines(call.report)
                /\ outcome' = "success"
                /\ pc' = "done"
    /\ UNCHANGED <<available_regions, region, awsJobs, stateIdx, pageIdx, jobs,
                   planIdx, selIdx, selections, plans, unique_resources,
                   job_status, jsonFile>>

\* The steps that lead to a region.
Prompt ==
    \/ \E raised \in BOOLEAN : GetAvailableRegions(raised)
    \/ Ask
    \/ \E answer \in Answers : ReadChoice(answer)
    \/ EndOfInput

\* Every step of the run from there, before the workbook is written.
Collect ==
    \/ \E raised \in BOOLEAN : Construct(raised)
    \/ FetchJobsPage
    \/ FetchJobsPageFails
    \/ JobsFetched
    \/ StartPlan
    \/ FetchPlansFails
    \/ PlansFetched
    \/ FetchSelection
    \/ FetchSelectionFails
    \/ AppendPlan
    \/ GetUniqueResources
    \/ GetJobStatusSummary
    \/ \E v, sn \in BOOLEAN : BuildReport(v, sn)
    \/ \E failure \in {"none", "open", "dump"} : WriteJson(failure)

Next == Prompt \/ Collect \/ \E raised \in BOOLEAN : WriteExcel(raised)

Spec == Init /\ [][Next]_vars

(***************************************************************************)
(* The derivations and the projector applied to an arbitrary job list: the  *)
(* run starts where generate_backup_report holds the list (line 232), with  *)
(* the first region chosen at once, every plan fetched and no request       *)
(* failing.                                                                 *)
(***************************************************************************)
RECURSIVE AllPlans(_)
AllPlans(ps) ==
    IF ps = <<>> THEN <<>>
    ELSE LET sels == PlanSelections(ps[1].BackupPlanId)
         IN  <<PlanEntry(ps[1], [i \in 1..Len(sels) |-> SelectionEntry(sels[i])])>>
                \o AllPlans(Tail(ps))

FnInit ==
    /\ pc = "unique"
    /\ available_regions = ServiceRegions
    /\ region = UsEast1
    /\ awsJobs = <<>>
    /\ stateIdx = Len(States) + 1
    /\ pageIdx = 0
    /\ jobs \in SeqsUpTo(JobCatalog, MaxJobs)
    /\ planIdx = Len(AwsPlans)
    /\ selIdx = 0
    /\ selections = <<>>
    /\ plans = AllPlans(AwsPlans)
    /\ unique_resources = <<>>
    /\ job_status = EmptyDict
    /\ report = Nothing
    /\ jsonFile = Nothing
    /\ workbook = Nothing
    /\ console = <<Line(Banner, "")>> \o Menu(ServiceRegions)
                    \o <<Line(PromptText, ""), Line(StartLine, UsEast1)>>
    /\ outcome = "running"
    /\ invocations = 0

FnNext ==
    \/ GetUniqueResources
    \/ GetJobStatusSummary
    \/ BuildReport(FALSE, FALSE)
    \/ WriteJson("none")
    \/ WriteExcel(FALSE)

FnSpec == FnInit /\ [][FnNext]_vars

(***************************************************************************)
(* create_excel_report as a function of its argument: the report is the     *)
(* document generate_backup_report returns for an arbitrary job list, and   *)
(* the method is called on it again and again, each call on the report as   *)
(* the call before left it.                                                 *)
(***************************************************************************)
ProjectorInit ==
    /\ pc = "excel"
    /\ available_regions = ServiceRegions
    /\ region = UsEast1
    /\ awsJobs = <<>>
    /\ stateIdx = Len(States) + 1
    /\ pageIdx = 0
    /\ jobs \in SeqsUpTo(JobCatalog, MaxJobs)
    /\ planIdx = Len(AwsPlans)
    /\ selIdx = 0
    /\ selections = <<>>
    /\ plans = AllPlans(AwsPlans)
    /\ unique_resources = get_unique_resources(jobs)
    /\ job_status = get_job_status_summary(jobs)
    /\ report = ReportDocument(region, jobs, job_status, plans, unique_resources,
                               [ebs_volumes |-> get_ebs_volumes(FALSE),
                                snapshots |-> get_snapshots(FALSE)])
    /\ jsonFile = Nothing
    /\ workbook = Nothing
    /\ console = <<>>
    /\ outcome = "running"
    /\ invocations = 0

\* analyzer.create_excel_report(report, output_file): the writer is opened,
\* min() of no backups raises (line 294) and the closed writer leaves a blank
\* workbook, or the sheets are written.
CallProjector ==
    /\ invocations < MaxInvocations
    /\ invocations' = invocations + 1
    /\ IF ExcelRaises(report)
       THEN /\ workbook' = BlankWorkbook
            /\ UNCHANGED report
       ELSE LET call == create_excel_report(report)
            IN  /\ workbook' = call.sheets
                /\ report' = call.report
    /\ UNCHANGED <<pc, available_regions, region, awsJobs, stateIdx, pageIdx,
                   jobs, planIdx, selIdx, selections, plans, unique_resources,
                   job_status, jsonFile, console, outcome>>

ProjectorSpec == ProjectorInit /\ [][CallProjector]_vars

(***************************************************************************)
(* Properties.                                                              *)
(***************************************************************************)
Issued == "COMPLETED_WITH_ISSUES"

RECURSIVE SumCounts(_, _)
SumCounts(d, keys) ==
    IF keys = {} THEN 0
    ELSE LET k == CHOOSE x \in keys : TRUE IN d[k] + SumCounts(d, keys \ {k})

StatusDone == pc \notin {"start", "prompt", "input", "construct", "jobs", "plans", "selections", "unique", "status"}
ResourcesDone == pc \notin {"start", "prompt", "input", "construct", "jobs", "plans", "selections", "unique"}
Assembled == report # Nothing
Projected == workbook \notin {Nothing, BlankWorkbook}
JsonWritten == jsonFile \notin {Nothing, Truncated}
RegionChosen == pc \notin {"start", "prompt", "input"} /\ region # <<>>

\* C1: the counts of the status summary add up to the number of jobs, and so to
\* total_backups of the report built from the same list.
C1_StatusSum ==
    /\ StatusDone => SumCounts(job_status, DOMAIN job_status) = Len(jobs)
    /\ Assembled =>
         SumCounts(report.job_status_summary, DOMAIN report.job_status_summary)
            = report.total_backups

C1_Witness ==
    /\ Assembled
    /\ Len(jobs) = 3
    /\ \E k \in DOMAIN job_status : job_status[k] = 2
    /\ "ABORTED" \in DOMAIN job_status

\* "issue" occurs in the message, each letter in either case.
MentionsIssue(msg) ==
    \E k \in 1..(Len(msg) - 4) :
        /\ msg[k] \in {"i", "I"}
        /\ msg[k + 1] \in {"s", "S"}
        /\ msg[k + 2] \in {"s", "S"}
        /\ msg[k + 3] \in {"u", "U"}
        /\ msg[k + 4] \in {"e", "E"}

IsIssued(job) ==
    /\ job.State = "COMPLETED"
    /\ "StatusMessage" \in DOMAIN job
    /\ MentionsIssue(job.StatusMessage)

\* C2: a job is counted under COMPLETED_WITH_ISSUES exactly when it is COMPLETED
\* and its message mentions "issue" in any letter case; every other job is
\* counted under its raw State, a job without a message among them.
C2_Classification ==
    StatusDone =>
        /\ Get(job_status, Issued, 0)
             = Cardinality({i \in DOMAIN jobs : IsIssued(jobs[i])})
        /\ \A i \in DOMAIN jobs : jobs[i].State \in DOMAIN job_status \/ IsIssued(jobs[i])
        /\ \A k \in DOMAIN job_status \ {Issued} :
             job_status[k]
                = Cardinality({i \in DOMAIN jobs : jobs[i].State = k /\ ~IsIssued(jobs[i])})

C2_Witness ==
    /\ StatusDone
    /\ Get(job_status, Issued, 0) = 1
    /\ \E i \in DOMAIN jobs :
         jobs[i].State = "COMPLETED" /\ "StatusMessage" \notin DOMAIN jobs[i]
    /\ \E i \in DOMAIN jobs :
         /\ jobs[i].State = "FAILED"
         /\ "StatusMessage" \in DOMAIN jobs[i]
         /\ MentionsIssue(jobs[i].StatusMessage)

\* The part of a locator after its last '/', the whole locator when it has none.
AfterLastSlash(arn) ==
    LET at == {i \in 1..Len(arn) : arn[i] = "/"}
    IN  IF at = {} THEN arn
        ELSE SubSeq(arn, (CHOOSE i \in at : \A j \in at : j <= i) + 1, Len(arn))

FirstJobOf(id) ==
    jobs[CHOOSE i \in DOMAIN jobs :
            /\ AfterLastSlash(jobs[i].ResourceArn) = id
            /\ \A j \in DOMAIN jobs : AfterLastSlash(jobs[j].ResourceArn) = id => i <= j]

\* C3: the registry holds one record per distinct resource_id of the list, and
\* each record carries the attributes of the first job with that resource_id.
C3_FirstWins ==
    ResourcesDone =>
        /\ \A i, j \in DOMAIN unique_resources :
             unique_resources[i].resource_id = unique_resources[j].resource_id => i = j
        /\ {unique_resources[i].resource_id : i \in DOMAIN unique_resources}
             = {AfterLastSlash(jobs[i].ResourceArn) : i \in DOMAIN jobs}
        /\ \A i \in DOMAIN unique_resources :
             LET rec == unique_resources[i]
                 first == FirstJobOf(rec.resource_id)
             IN  /\ rec.resource_arn = first.ResourceArn
                 /\ rec.resource_type = Get(first, "ResourceType", NA)
                 /\ rec.last_backup = Strftime(first.CreationDate)
                 /\ rec.backup_vault = Get(first, "BackupVaultName", NA)

C3_Witness ==
    /\ ResourcesDone
    /\ Len(unique_resources) = 2
    /\ \E i, j \in DOMAIN jobs :
         /\ i < j
         /\ AfterLastSlash(jobs[i].ResourceArn) = AfterLastSlash(jobs[j].ResourceArn)
         /\ jobs[i].ResourceArn # jobs[j].ResourceArn
         /\ jobs[i].CreationDate # jobs[j].CreationDate

ExpectedIds == {AfterLastSlash(jobs[i].ResourceArn) : i \in DOMAIN jobs}

\* C4: the resource_id is the part of the locator after its last '/' wherever it
\* is derived: the registry, the per-job view, the rows of the Resource Summary
\* and the row keys of the Monthly Resource Summary hold the same ids.
C4_SameIdentity ==
    /\ Assembled =>
         /\ \A i \in DOMAIN report.backups :
              report.backups[i].resource_id = AfterLastSlash(jobs[i].ResourceArn)
         /\ {report.unique_resources[i].resource_id : i \in DOMAIN report.unique_resources}
              = ExpectedIds
         /\ {report.backups[i].resource_id : i \in DOMAIN report.backups} = ExpectedIds
    /\ Projected =>
         /\ {workbook.ResourceSummary[i].ResourceID : i \in DOMAIN workbook.ResourceSummary}
              = ExpectedIds
         /\ Range(workbook.MonthlyResourceSummary.index) = ExpectedIds

C4_Witness ==
    /\ Projected
    /\ Cardinality(ExpectedIds) = 2
    /\ \E i \in DOMAIN jobs : jobs[i].ResourceArn = Arn_a_x_v2
    /\ \E i \in DOMAIN jobs : jobs[i].ResourceArn = Arn_v3
    /\ \E i \in DOMAIN jobs : jobs[i].ResourceArn = Arn_a_v2

\* The calendar month of a raw job, read off its creation date.
JobMonth(job) == [year |-> job.CreationDate.year, month |-> job.CreationDate.month]

ObservedMonths == {JobMonth(jobs[i]) : i \in DOMAIN jobs}

JobsIn(id, month) ==
    {i \in DOMAIN jobs :
        AfterLastSlash(jobs[i].ResourceArn) = id /\ JobMonth(jobs[i]) = month}

Monthly == workbook.MonthlyResourceSummary

\* The months from the first to the last one given, the empty ones included.
FullRangePeriods(S) ==
    LET lo == CHOOSE p \in S : \A q \in S : PeriodOrd(p) <= PeriodOrd(q)
        hi == CHOOSE p \in S : \A q \in S : PeriodOrd(q) <= PeriodOrd(p)
    IN  [i \in 1..(PeriodOrd(hi) - PeriodOrd(lo) + 1) |->
            [year |-> (PeriodOrd(lo) + i - 1) \div 12,
             month |-> ((PeriodOrd(lo) + i - 1) % 12) + 1]]

HasTriplet(month) ==
    /\ PeriodStr(month) \o CountSuffix \in Range(Monthly.columns)
    /\ PeriodStr(month) \o AvgSuffix \in Range(Monthly.columns)
    /\ PeriodStr(month) \o TotalSuffix \in Range(Monthly.columns)

ZeroCells(id, month) ==
    /\ Monthly.cell[<<id, PeriodStr(month) \o CountSuffix>>] = Zero
    /\ Monthly.cell[<<id, PeriodStr(month) \o AvgSuffix>>] = Zero
    /\ Monthly.cell[<<id, PeriodStr(month) \o TotalSuffix>>] = Zero

\* C5: a column triplet for every calendar month from the earliest to
\* the latest observed one, the months without any job included, and zero
\* cells for every pair of that range without jobs.
C5_FullRange ==
    Projected =>
        \A k \in DOMAIN FullRangePeriods(ObservedMonths) :
            LET month == FullRangePeriods(ObservedMonths)[k]
            IN  /\ HasTriplet(month)
                /\ \A id \in ExpectedIds : JobsIn(id, month) = {} => ZeroCells(id, month)

\* C5, amended: a column triplet (Count, GB Avg, GB Total) for exactly the
\* months in which a job was created, in chronological order, and for every
\* pair of a resource and such a month without jobs the three cells hold 0.
C5_ObservedMonths ==
    Projected =>
        /\ Monthly.columns
             = Triplets([i \in 1..Cardinality(ObservedMonths) |->
                            PeriodStr(SortedPeriods(ObservedMonths)[i])])
        /\ DOMAIN Monthly.cell = ExpectedIds \X Range(Monthly.columns)
        /\ \A k \in DOMAIN Monthly.cell : Monthly.cell[k] # NaN
        /\ \A id \in ExpectedIds : \A month \in ObservedMonths :
             JobsIn(id, month) = {} => ZeroCells(id, month)

C5_Witness ==
    /\ Projected
    /\ Len(FullRangePeriods(ObservedMonths)) > Cardinality(ObservedMonths)
    /\ \E id \in ExpectedIds : \E month \in ObservedMonths :
         JobsIn(id, month) = {} /\ ZeroCells(id, month)

RECURSIVE SizeSum(_)
SizeSum(S) ==
    IF S = {} THEN Zero
    ELSE LET i == CHOOSE x \in S : TRUE
         IN  FracAdd(Frac(Get(jobs[i], "BackupSizeInBytes", 0), 1024 * 1024 * 1024),
                     SizeSum(S \ {i}))

RECURSIVE CountSum(_)
CountSum(cells) ==
    IF cells = {} THEN 0
    ELSE LET k == CHOOSE x \in cells : TRUE IN Monthly.cell[k][1] + CountSum(cells \ {k})

\* C6: for every pair of a resource and a month with jobs, Count is the number
\* of those jobs, GB Total the sum of their sizes in GB and GB Avg that total
\* divided by that count; the Count cells add up to the number of jobs.
C6_Aggregates ==
    Projected =>
        /\ \A id \in ExpectedIds : \A month \in ObservedMonths :
             LET members == JobsIn(id, month)
                 count == Monthly.cell[<<id, PeriodStr(month) \o CountSuffix>>]
                 avg == Monthly.cell[<<id, PeriodStr(month) \o AvgSuffix>>]
                 total == Monthly.cell[<<id, PeriodStr(month) \o TotalSuffix>>]
             IN  members # {} =>
                    /\ count = <<Cardinality(members), 1>>
                    /\ total = SizeSum(members)
                    /\ avg[2] > 0
                    /\ avg[1] * total[2] * Cardinality(members) = total[1] * avg[2]
        /\ CountSum({k \in DOMAIN Monthly.cell :
                        \E month \in ObservedMonths : k[2] = PeriodStr(month) \o CountSuffix})
             = Len(jobs)

\* three jobs of 0.5, 1 and 1.5 GB in one cell: count 3, average 1, total 3
C6_Witness ==
    /\ Projected
    /\ \E id \in ExpectedIds : \E month \in ObservedMonths :
         /\ Monthly.cell[<<id, PeriodStr(month) \o CountSuffix>>] = <<3, 1>>
         /\ Monthly.cell[<<id, PeriodStr(month) \o AvgSuffix>>] = <<1, 1>>
         /\ Monthly.cell[<<id, PeriodStr(month) \o TotalSuffix>>] = <<3, 1>>
         /\ \E i, j \in JobsIn(id, month) :
              Get(jobs[i], "BackupSizeInBytes", 0) # Get(jobs[j], "BackupSizeInBytes", 0)

RunFailedWith(msg) ==
    \E i \in DOMAIN console : console[i].text = RunError /\ console[i].arg = msg

\* The run got as far as create_excel_report and the file system did not fail.
ProjectionRan ==
    /\ pc = "done"
    /\ JsonWritten
    /\ ~RunFailedWith("cannot write the workbook")

\* C7: on a report without backups create_excel_report completes and produces
\* the Summary table, the run ending without an exception.
C7_EmptyReportProjected ==
    (ProjectionRan /\ Len(report.backups) = 0) => (Projected /\ outcome = "success")

SelectionsFailedFor(id) ==
    \E i \in DOMAIN console :
        console[i].text = SelectionsError /\ console[i].arg = id

\* get_backup_plans returned the list it built (line 193).
PlansReturned ==
    /\ pc \notin {"start", "prompt", "input", "construct", "jobs", "plans", "selections"}
    /\ planIdx = Len(AwsPlans)
    /\ ~Printed(PlansError)

\* C8: a plan whose selection fetch failed is returned with an empty selections
\* list, every other plan with all of its selections.
C8_FailedSelectionsEmpty ==
    PlansReturned =>
        /\ Len(plans) = Len(AwsPlans)
        /\ \A i \in DOMAIN plans :
             /\ plans[i].plan_id = AwsPlans[i].BackupPlanId
             /\ IF SelectionsFailedFor(plans[i].plan_id)
                THEN Len(plans[i].selections) = 0
                ELSE Len(plans[i].selections) = Len(PlanSelections(plans[i].plan_id))

\* C9: after a failed job page the run still writes the JSON document and the
\* workbook and ends in success, unless the file system fails.
C9_JobPageFailureSurvived ==
    (/\ pc = "done"
     /\ Printed(JobsError)
     /\ ~RunFailedWith("could not create client")
     /\ ~RunFailedWith("cannot write the JSON file")
     /\ ~RunFailedWith("cannot write the workbook"))
        => (JsonWritten /\ Projected /\ outcome = "success")

SuccessTexts == {JsonDone, ExcelDone, TotalLine, StatusLine}

\* C10: once a region is chosen, a run ends in exactly one of two ways: the
\* JSON document and then the workbook are written and the success lines
\* printed, or the exception is caught and the failure message and the
\* credential hint are printed; no exception leaves main, no success line
\* follows a failure, and a run that has not ended can take a step (at "excel"
\* WriteExcel is enabled as it is).
C10_TwoOutcomes ==
    RegionChosen =>
        /\ outcome \in {"running", "success", "failed"}
        /\ (pc = "done") = (outcome # "running")
        /\ pc \in {"done", "excel"} \/ ENABLED Collect
        /\ Projected => JsonWritten
        /\ outcome = "running" => ~Projected /\ ~Printed(RunError)
                                    /\ \A t \in SuccessTexts : ~Printed(t)
        /\ outcome = "success" =>
             /\ JsonWritten /\ Projected
             /\ \A t \in SuccessTexts : Printed(t)
             /\ ~Printed(RunError) /\ ~Printed(CredentialsHint)
        /\ outcome = "failed" =>
             /\ ~Projected
             /\ Printed(RunError) /\ Printed(CredentialsHint)
             /\ \A t \in SuccessTexts : ~Printed(t)

C10_Witness ==
    /\ pc = "done"
    /\ outcome = "failed"
    /\ JsonWritten
    /\ RunFailedWith("cannot write the workbook")

(***************************************************************************)
(* create_excel_report as a projection of its argument.                     *)
(***************************************************************************)
\* A step in which create_excel_report is called.
ProjectorCalled == invocations' # invocations

\* C11: a call of create_excel_report leaves the report document as it was,
\* every field of it (backups, plans, unique_resources and storage included),
\* and every call after the first, made on the report as the calls before
\* left it, produces the tables the call before produced.
C11_PureProjection ==
    [][ProjectorCalled =>
         /\ report' = report
         /\ invocations >= 1 => workbook' = workbook]_vars

\* create_excel_report has been called three times on a report whose jobs
\* fall in more than one month and belong to more than one resource, and the
\* tables of the last call are the workbook.
C11_Witness ==
    /\ invocations >= 3
    /\ workbook \notin {Nothing, BlankWorkbook}
    /\ Cardinality({MonthOf(report.backups[i]) : i \in DOMAIN report.backups}) >= 2
    /\ Cardinality({report.backups[i].resource_id : i \in DOMAIN report.backups}) >= 2
    /\ Len(workbook.MonthlyResourceSummary.columns) >= 6

====
